---------------------------- MODULE Spec2Model ----------------------------
(***************************************************************************)
(* Model of the btc-compass valuation engine (services/modelEngine.ts),   *)
(* the indicator derivation of App.tsx (calculateIndicators) and its       *)
(* earlier variant (the stats memo).                                        *)
(*                                                                         *)
(* Numbers.  A JavaScript number is modelled in one of two ways:           *)
(*   - a USD magnitude (a curve value, a price) is a record                *)
(*     [k, ln]: k is "pos", "neg", "zero", "nan", "inf", "ninf"; for a     *)
(*     finite non-zero value, ln is the natural logarithm of its absolute  *)
(*     value in units of 1/ONE (a logarithmic number system, which spans   *)
(*     the 1e-17 .. 1e+30 range of the curves);                            *)
(*   - a plain quantity (oscillator, sigma, wave, risk percent) is a       *)
(*     record [k, v]: k is "fin", "pinf", "ninf" or "nan" and v is the     *)
(*     value in units of 1/ONE.  A finite result beyond MAX_FX overflows   *)
(*     to an infinity, as a double does beyond Number.MAX_VALUE.           *)
(* A Date is [day, ms]: whole days since 1970-01-01 UTC and the            *)
(* milliseconds within that day, so getTime() = day*MS_PER_DAY + ms.       *)
(***************************************************************************)
EXTENDS Integers, Sequences, FiniteSets, TLC

ONE == 1000 * 1000
MAX_FX == 1000 * ONE

Abs(x) == IF x < 0 THEN -x ELSE x
Sgn(x) == IF x < 0 THEN -1 ELSE IF x > 0 THEN 1 ELSE 0
MaxInt(a, b) == IF a >= b THEN a ELSE b
MinInt(a, b) == IF a <= b THEN a ELSE b

(* floor(a*b/ONE) for a, b >= 0, by parts of three decimal digits. *)
MulNN(a, b) ==
  LET ah == a \div 1000
      al == a % 1000
      bh == b \div 1000
      bl == b % 1000
  IN  ah * bh + (ah * bl + al * bh + (al * bl) \div 1000) \div 1000

(* a*b/ONE, rounded toward zero. *)
MulFix(a, b) == Sgn(a) * Sgn(b) * MulNN(Abs(a), Abs(b))

(* floor(a*ONE/c) for a >= 0, c > 0, by long division in base 100. *)
DivNN(a, c) ==
  LET q0 == a \div c
      r0 == a % c
      q1 == (r0 * 100) \div c
      r1 == (r0 * 100) % c
      q2 == (r1 * 100) \div c
      r2 == (r1 * 100) % c
      q3 == (r2 * 100) \div c
  IN  q0 * ONE + q1 * 10000 + q2 * 100 + q3

(* a*ONE/c, rounded toward zero, c # 0. *)
DivFix(a, c) == Sgn(a) * Sgn(c) * DivNN(Abs(a), Abs(c))

RECURSIVE Pow2(_)
Pow2(k) == IF k <= 0 THEN 1 ELSE 2 * Pow2(k - 1)

LN2 == 693147
HALF_PI == 1570796

(* 2*atanh(z) = ln((1+z)/(1-z)) for |z| <= 1/5: the power series            *)
(* z + z^3/3 + z^5/5 + ... + z^11/11 in Horner form, y standing for z^2.      *)
AtanhPoly(z, y) ==
  z + MulFix(z, MulFix(y, ONE \div 3 + MulFix(y, ONE \div 5 + MulFix(y, ONE \div 7
        + MulFix(y, ONE \div 9 + MulFix(y, ONE \div 11))))))
Atanh2(z) == 2 * AtanhPoly(z, MulFix(z, z))

(* ln(m/ONE)*ONE for m in [0.75*ONE, 1.5*ONE); odd in z, so ln(1) = 0. *)
LnMant(m) ==
  LET z == DivFix(Abs(m - ONE), m + ONE)
  IN  Sgn(m - ONE) * Atanh2(z)

(* The k with 0.75 <= n / 2^k < 1.5, for n/d a positive rational. *)
RECURSIVE Log2Up(_, _, _)
Log2Up(n, d, k) == IF 2 * n < 3 * d * Pow2(k) THEN k ELSE Log2Up(n, d, k + 1)
RECURSIVE Log2Down(_, _, _)
Log2Down(n, d, k) == IF 4 * n * Pow2(k) >= 3 * d THEN k ELSE Log2Down(n, d, k + 1)

(* ln(n)*ONE for an integer n >= 1. *)
LnInt(n) ==
  LET k == Log2Up(n, 1, 0)
  IN  k * LN2 + LnMant(DivNN(n, Pow2(k)))

(* ln(x/ONE)*ONE for a fixed-point x > 0. *)
LnFix(x) ==
  IF 4 * x >= 3 * ONE
  THEN LET k == Log2Up(x, ONE, 0) IN k * LN2 + LnMant(x \div Pow2(k))
  ELSE LET j == Log2Down(x, ONE, 0) IN LnMant(x * Pow2(j)) - j * LN2

(* e^(r/ONE)*ONE for 0 <= r < LN2: the power series to r^9/9! in Horner form. *)
ExpSeries(r) ==
  ONE + MulFix(r, ONE + MulFix(r, ONE + MulFix(r, ONE + MulFix(r, ONE
      + MulFix(r, ONE + MulFix(r, ONE + MulFix(r, ONE + MulFix(r, ONE + r \div 9)
      \div 8) \div 7) \div 6) \div 5) \div 4) \div 3) \div 2)

(* e^(x/ONE)*ONE for a fixed-point x <= 7*ONE; 0 once the result is below 1/ONE. *)
ExpFix(x) ==
  LET k == x \div LN2
      r == x % LN2
  IN  IF k >= 0 THEN ExpSeries(r) * Pow2(k)
      ELSE IF k < -30 THEN 0
      ELSE ExpSeries(r) \div Pow2(-k)

(* floor(a*n/d) for a, n >= 0 and d > 0, without forming a*n. *)
MulDivInt(a, n, d) == (a \div d) * n + ((a % d) * n) \div d

TWO_PI == 6283185
QUARTER_PI == 785398

(* sin and cos of r/ONE for 0 <= r <= QUARTER_PI: the power series to r^9/9! *)
(* and r^8/8! in Horner form, y standing for r^2.                             *)
SinPoly(r, y) ==
  r - MulFix(r, MulFix(y, ONE - MulFix(y, ONE - MulFix(y, ONE - MulFix(y, ONE) \div 72)
        \div 42) \div 20) \div 6)
CosPoly(y) ==
  ONE - MulFix(y, ONE - MulFix(y, ONE - MulFix(y, ONE - MulFix(y, ONE) \div 56)
        \div 30) \div 12) \div 2
SinSeries(r) == SinPoly(r, MulFix(r, r))
CosSeries(r) == CosPoly(MulFix(r, r))

(* sin and cos of r/ONE for 0 <= r < HALF_PI. *)
SinQ(r) == IF r <= QUARTER_PI THEN SinSeries(r) ELSE CosSeries(HALF_PI - r)
CosQ(r) == IF r <= QUARTER_PI THEN CosSeries(r) ELSE SinSeries(HALF_PI - r)

(* Math.sin of the angle t/ONE radians: quadrant reduction, odd in t. *)
SinNN(t) ==
  LET q == (t \div HALF_PI) % 4
      r == t % HALF_PI
  IN  CASE q = 0 -> SinQ(r)
        [] q = 1 -> CosQ(r)
        [] q = 2 -> -SinQ(r)
        [] OTHER -> -CosQ(r)
SinFix(t) == Sgn(t) * SinNN(Abs(t))

-----------------------------------------------------------------------------
(* USD magnitudes: a logarithmic number system. *)
Pos(l) == [k |-> "pos", ln |-> l]
Neg(l) == [k |-> "neg", ln |-> l]
Zero == [k |-> "zero", ln |-> 0]
NaN == [k |-> "nan", ln |-> 0]
Inf == [k |-> "inf", ln |-> 0]
NegInf == [k |-> "ninf", ln |-> 0]

IsFinite(a) == a.k \in {"pos", "neg", "zero"}
IsNegative(a) == a.k \in {"neg", "ninf"}

(* ln(e^hi + e^lo) and ln(e^hi - e^lo) for hi >= lo. *)
LnSum(hi, lo) == hi + LnFix(ONE + ExpFix(lo - hi))
LnDiff(hi, lo) == hi + LnFix(ONE - ExpFix(lo - hi))

(* a * b *)
MagMul(a, b) ==
  IF a.k = "nan" \/ b.k = "nan" THEN NaN
  ELSE IF a.k = "zero" \/ b.k = "zero"
       THEN (IF IsFinite(a) /\ IsFinite(b) THEN Zero ELSE NaN)
  ELSE IF ~IsFinite(a) \/ ~IsFinite(b)
       THEN (IF IsNegative(a) = IsNegative(b) THEN Inf ELSE NegInf)
  ELSE [k |-> IF a.k = b.k THEN "pos" ELSE "neg", ln |-> a.ln + b.ln]

(* a / b *)
MagDiv(a, b) ==
  IF a.k = "nan" \/ b.k = "nan" THEN NaN
  ELSE IF ~IsFinite(a)
       THEN (IF ~IsFinite(b) THEN NaN
             ELSE IF IsNegative(a) = IsNegative(b) THEN Inf ELSE NegInf)
  ELSE IF ~IsFinite(b) THEN Zero
  ELSE IF b.k = "zero"
       THEN (IF a.k = "zero" THEN NaN ELSE IF a.k = "pos" THEN Inf ELSE NegInf)
  ELSE IF a.k = "zero" THEN Zero
  ELSE [k |-> IF a.k = b.k THEN "pos" ELSE "neg", ln |-> a.ln - b.ln]

(* a + b *)
MagAdd(a, b) ==
  IF a.k = "nan" \/ b.k = "nan" THEN NaN
  ELSE IF ~IsFinite(a) \/ ~IsFinite(b)
       THEN (IF IsFinite(b) THEN a
             ELSE IF IsFinite(a) THEN b
             ELSE IF a.k = b.k THEN a ELSE NaN)
  ELSE IF a.k = "zero" THEN b
  ELSE IF b.k = "zero" THEN a
  ELSE LET hi == IF a.ln >= b.ln THEN a ELSE b
           lo == IF a.ln >= b.ln THEN b ELSE a
       IN  IF hi.k = lo.k THEN [k |-> hi.k, ln |-> LnSum(hi.ln, lo.ln)]
           ELSE IF ExpFix(lo.ln - hi.ln) >= ONE THEN Zero
           ELSE [k |-> hi.k, ln |-> LnDiff(hi.ln, lo.ln)]

(* a < b and a > 0, as the language compares numbers: false on NaN. *)
MagRank(a) ==
  CASE a.k = "ninf" -> 0 [] a.k = "neg" -> 1 [] a.k = "zero" -> 2
    [] a.k = "pos" -> 3 [] OTHER -> 4
MagLt(a, b) ==
  /\ a.k # "nan"
  /\ b.k # "nan"
  /\ \/ MagRank(a) < MagRank(b)
     \/ a.k = "pos" /\ b.k = "pos" /\ a.ln < b.ln
     \/ a.k = "neg" /\ b.k = "neg" /\ a.ln > b.ln
MagGtZero(a) == a.k \in {"pos", "inf"}

-----------------------------------------------------------------------------
(* Plain quantities: fixed point with overflow to the infinities. *)
Fin(v) == [k |-> "fin", v |-> v]
FxNaN == [k |-> "nan", v |-> 0]
PInf == [k |-> "pinf", v |-> 0]
NInf == [k |-> "ninf", v |-> 0]
Num(n) == Fin(n * ONE)

(* The finite value v, or the infinity it overflows to. *)
FxRound(v) == IF v > MAX_FX THEN PInf ELSE IF v < -MAX_FX THEN NInf ELSE Fin(v)
FxSignInf(s) == IF s < 0 THEN NInf ELSE PInf
FxSign(a) ==
  CASE a.k = "fin" -> Sgn(a.v) [] a.k = "pinf" -> 1 [] a.k = "ninf" -> -1 [] OTHER -> 0

(* a + b *)
FxAdd(a, b) ==
  IF a.k = "nan" \/ b.k = "nan" THEN FxNaN
  ELSE IF a.k = "fin" /\ b.k = "fin" THEN FxRound(a.v + b.v)
  ELSE IF a.k = "fin" THEN b
  ELSE IF b.k = "fin" THEN a
  ELSE IF a.k = b.k THEN a ELSE FxNaN

(* a * b *)
FxMul(a, b) ==
  IF a.k = "nan" \/ b.k = "nan" THEN FxNaN
  ELSE IF a.k = "fin" /\ b.k = "fin"
       THEN (IF Abs(b.v) >= 1000 /\ Abs(a.v) \div 1000 > MAX_FX \div (Abs(b.v) \div 1000)
             THEN FxSignInf(Sgn(a.v) * Sgn(b.v))
             ELSE FxRound(MulFix(a.v, b.v)))
  ELSE IF FxSign(a) = 0 \/ FxSign(b) = 0 THEN FxNaN
  ELSE FxSignInf(FxSign(a) * FxSign(b))

(* a / b, for a finite divisor of magnitude at most 20. *)
FxDiv(a, b) ==
  IF a.k = "nan" \/ b.k = "nan" THEN FxNaN
  ELSE IF a.k = "fin" /\ b.k = "fin"
       THEN (IF b.v = 0
             THEN (IF a.v = 0 THEN FxNaN ELSE FxSignInf(Sgn(a.v)))
             ELSE IF Abs(a.v) \div Abs(b.v) > MAX_FX \div ONE
             THEN FxSignInf(Sgn(a.v) * Sgn(b.v))
             ELSE FxRound(DivFix(a.v, b.v)))
  ELSE IF a.k = "fin" THEN Fin(0)
  ELSE IF b.k = "fin" THEN FxSignInf(FxSign(a) * (IF b.v < 0 THEN -1 ELSE 1))
  ELSE FxNaN

(* a < b and a > b, false when either side is NaN. *)
FxRank(a) == CASE a.k = "ninf" -> -1 [] a.k = "pinf" -> 1 [] OTHER -> 0
FxLt(a, b) ==
  /\ a.k # "nan"
  /\ b.k # "nan"
  /\ \/ FxRank(a) < FxRank(b)
     \/ a.k = "fin" /\ b.k = "fin" /\ a.v < b.v
FxGt(a, b) == FxLt(b, a)

(* Math.min and Math.max: NaN when either argument is NaN. *)
MathMin(a, b) ==
  IF a.k = "nan" \/ b.k = "nan" THEN FxNaN ELSE IF FxLt(b, a) THEN b ELSE a
MathMax(a, b) ==
  IF a.k = "nan" \/ b.k = "nan" THEN FxNaN ELSE IF FxLt(a, b) THEN b ELSE a

(* Math.log of a magnitude, and Math.exp of a plain quantity. *)
MathLog(a) ==
  CASE a.k = "pos" -> FxRound(a.ln)
    [] a.k = "zero" -> NInf
    [] a.k = "inf" -> PInf
    [] OTHER -> FxNaN
MathExp(x) ==
  CASE x.k = "fin" -> Pos(x.v)
    [] x.k = "pinf" -> Inf
    [] x.k = "ninf" -> Zero
    [] OTHER -> NaN

(* A plain quantity as a magnitude (for a product with a curve value). *)
ToMag(x) ==
  CASE x.k = "nan" -> NaN
    [] x.k = "pinf" -> Inf
    [] x.k = "ninf" -> NegInf
    [] x.k = "fin" /\ x.v = 0 -> Zero
    [] x.k = "fin" /\ x.v > 0 -> Pos(LnFix(x.v))
    [] OTHER -> Neg(LnFix(-x.v))

(* Math.pow(days, b) for an integer day count and a non-integer exponent b > 0. *)
PowInt(days, b) ==
  IF days > 0 THEN Pos(MulFix(b, LnInt(days)))
  ELSE IF days = 0 THEN Zero
  ELSE NaN

(* Math.pow(x, b) for a plain quantity x in [0, 1] and an exponent b > 0. *)
PowFix(x, b) ==
  IF x.k # "fin" \/ x.v < 0 THEN FxNaN
  ELSE IF x.v = 0 THEN Fin(0)
  ELSE Fin(ExpFix(MulFix(b, LnFix(x.v))))

(* n / d for two integral numbers, d > 0, as a plain quantity. *)
IntQuot(n, d) == FxRound(DivFix(n, d))

(* The language's remainder: the sign of the dividend. *)
JsRem(a, n) == Sgn(a) * (Abs(a) % n)

-----------------------------------------------------------------------------
(* constants.ts *)
MS_PER_DAY == 86400000
GENESIS_DAY == 14247
HALVING_DAY == 19833
GENESIS_DATE == [day |-> GENESIS_DAY, ms |-> 0]
HALVING_DATE == [day |-> HALVING_DAY, ms |-> 0]

LN_A_STD == -38751904
B_STD == 5780000
LN_A_DECAY == -34146734
B_DECAY == 5250000
A_STD == Pos(LN_A_STD)
A_DECAY == Pos(LN_A_DECAY)

-----------------------------------------------------------------------------
(* The state.  call is the call of the engine or of the indicator layer in    *)
(* progress, with its arguments and what it returns; the code keeps nothing   *)
(* else between calls.  last is the result of an earlier call as its caller   *)
(* has kept it.  fetch is the position of fetchMarketData and what it has     *)
(* gathered so far.                                                           *)
VARIABLES call, last, fetch, app
vars == <<call, last, fetch, app>>

Idle == [op |-> "none"]
NotFetching == [pc |-> "idle"]

(* floor((a.getTime() - b.getTime()) / (1000*60*60*24)) *)
FloorDays(a, b) == (a.day - b.day) + ((a.ms - b.ms) \div MS_PER_DAY)

(* modelEngine.ts *)
getDaysSinceGenesis(date) == FloorDays(date, GENESIS_DATE)

calcStandard(days) == MagMul(A_STD, PowInt(days, B_STD))
calcDecaying(days) == MagMul(A_DECAY, PowInt(days, B_DECAY))

CYCLE_PERIOD == 1460
WAVE_AMPLITUDE == 150000

(* A faulty variant of line 14, against which the dependence on the whole    *)
(* day alone is tested: a halving instant at noon, not aligned to the day.    *)
cycleDaysOfNoon(date) == FloorDays(date, [day |-> HALVING_DAY, ms |-> MS_PER_DAY \div 2])
cycleDaysOf(date) == FloorDays(date, HALVING_DATE)

(* Two faulty variants of line 16, against which the periodicity and the      *)
(* range of the cycle position are tested: a period of 1461 days in the       *)
(* remainder, and a single remainder that keeps the sign of the offset.       *)
cyclePosOfLeap(date) == JsRem(JsRem(cycleDaysOf(date), 1461) + 1461, 1461)
cyclePosOfSingle(date) == JsRem(cycleDaysOf(date), CYCLE_PERIOD)

cyclePosOf(date) == JsRem(JsRem(cycleDaysOf(date), CYCLE_PERIOD) + CYCLE_PERIOD, CYCLE_PERIOD)
(* A faulty variant of line 17, against which positivity is tested: an       *)
(* amplitude of 1.5, which takes the wave below zero in the trough.           *)
waveOfDeep(cyclePos) ==
  LET angle == Sgn(cyclePos) * MulDivInt(TWO_PI, Abs(cyclePos), CYCLE_PERIOD)
  IN  FxAdd(Num(1), FxMul(Fin(10 * WAVE_AMPLITUDE), Fin(SinFix(angle))))

(* One more: the wave a quarter period out of phase (a cosine), against     *)
(* which the phase lock is tested.                                            *)
waveOfShifted(cyclePos) ==
  LET angle == Sgn(cyclePos) * MulDivInt(TWO_PI, Abs(cyclePos), CYCLE_PERIOD)
  IN  FxAdd(Num(1), FxMul(Fin(WAVE_AMPLITUDE), Fin(SinFix(angle + HALF_PI))))

waveOf(cyclePos) ==
  LET angle == Sgn(cyclePos) * MulDivInt(TWO_PI, Abs(cyclePos), CYCLE_PERIOD)
  IN  FxAdd(Num(1), FxMul(Fin(WAVE_AMPLITUDE), Fin(SinFix(angle))))

calcCycle(days, date) ==
  LET base == calcStandard(days)
      cyclePos == cyclePosOf(date)
      wave == waveOf(cyclePos)
  IN  MagMul(base, ToMag(wave))

W_DECAYING == 400000
W_CYCLE == 300000
W_STANDARD == 300000

calcWeightedTotal(days, date) ==
  MagAdd(MagAdd(MagMul(calcDecaying(days), ToMag(Fin(W_DECAYING))),
                MagMul(calcCycle(days, date), ToMag(Fin(W_CYCLE)))),
         MagMul(calcStandard(days), ToMag(Fin(W_STANDARD))))

BASE_SIGMA == 500000
DECAY_RATE == 120000
REFERENCE_DAY == 5800

(* Faulty variants of line 38, against which the plateau and the decrease    *)
(* of sigma are tested: the decay starting at day 5000, and sigma held at a   *)
(* floor of 0.45.                                                             *)
getDynamicSigmaEarly(days) ==
  LET ratio == IntQuot(5000, MaxInt(5000, days))
  IN  FxMul(Fin(BASE_SIGMA), PowFix(ratio, DECAY_RATE))
getDynamicSigmaFloored(days) ==
  LET ratio == IntQuot(REFERENCE_DAY, MaxInt(REFERENCE_DAY, days))
  IN  MathMax(Fin(450000), FxMul(Fin(BASE_SIGMA), PowFix(ratio, DECAY_RATE)))

getDynamicSigma(days) ==
  LET ratio == IntQuot(REFERENCE_DAY, MaxInt(REFERENCE_DAY, days))
  IN  FxMul(Fin(BASE_SIGMA), PowFix(ratio, DECAY_RATE))

FxNeg(x) ==
  CASE x.k = "fin" -> Fin(-x.v) [] x.k = "pinf" -> NInf [] x.k = "ninf" -> PInf
    [] OTHER -> FxNaN

(* A faulty variant of lines 46-53, against which the band ordering is       *)
(* tested: the signs of sigma in upper and lower exchanged.                   *)
ModelValuesSwapped(days, date, weighted, sigma) ==
  [standard |-> calcStandard(days),
   decaying |-> calcDecaying(days),
   cycle |-> calcCycle(days, date),
   weighted |-> weighted,
   upper |-> MagMul(weighted, MathExp(FxNeg(sigma))),
   lower |-> MagMul(weighted, MathExp(sigma))]

(* getModelValues: the returned record, given weighted and sigma. *)
ModelValues(days, date, weighted, sigma) ==
  [standard |-> calcStandard(days),
   decaying |-> calcDecaying(days),
   cycle |-> calcCycle(days, date),
   weighted |-> weighted,
   upper |-> MagMul(weighted, MathExp(sigma)),
   lower |-> MagMul(weighted, MathExp(FxNeg(sigma)))]

(* getModelValues, from the line that has computed days on. *)
getModelValuesAt(days, date) ==
  ModelValues(days, date, calcWeightedTotal(days, date), getDynamicSigma(days))

getModelValues(date) == getModelValuesAt(getDaysSinceGenesis(date), date)

-----------------------------------------------------------------------------
(* types.ts: MarketStatus *)
ACCUMULATE == "ACCUMULATE"
STABLE == "STABLE"
SELL == "SELL"
MarketStatus == {ACCUMULATE, STABLE, SELL}

HALF == 500000
MVRV_SLOPE == 6500000
MVRV_OFFSET == 2500000
W_PRICE == 600000
W_FNG == 200000
W_MVRV == 200000
LOW_THRESHOLD == 35
HIGH_THRESHOLD == 70
STATS_LOW_THRESHOLD == 35
STATS_HIGH_THRESHOLD == 70

(* Math.max(0, Math.min(100, x)) *)
clamp100(x) == MathMax(Num(0), MathMin(Num(100), x))

(* Faulty variants of lines 112 and 113 of App.tsx, against which the        *)
(* oscillator fallback and the risk range are tested: the logarithm taken     *)
(* without the price > 0 guard, and the price risk without its upper clamp.   *)
oscillatorOfUnguarded(price, weighted) == MathLog(MagDiv(price, weighted))
priceRiskOfUnclamped(oscillator) ==
  MathMax(Num(0), FxMul(FxDiv(FxAdd(oscillator, Fin(HALF)), Num(1)), Num(100)))

(* Two more: the ratio of line 112 inverted, against which the sign of the    *)
(* oscillator is tested, and the price risk of line 113 without its offset of *)
(* 0.5, against which the regime at fair value is tested.                     *)
oscillatorOfInverted(price, weighted) ==
  IF MagGtZero(price) THEN MathLog(MagDiv(weighted, price)) ELSE Num(0)
priceRiskOfUncentred(oscillator) ==
  clamp100(FxMul(FxDiv(oscillator, Num(1)), Num(100)))

(* App.tsx, calculateIndicators, line by line. *)
oscillatorOf(price, weighted) ==
  IF MagGtZero(price) THEN MathLog(MagDiv(price, weighted)) ELSE Num(0)
priceRiskOf(oscillator) ==
  clamp100(FxMul(FxDiv(FxAdd(oscillator, Fin(HALF)), Num(1)), Num(100)))
mvrvEstOf(oscillator) == FxAdd(FxMul(oscillator, Fin(MVRV_SLOPE)), Fin(MVRV_OFFSET))
riskPercentOf(priceRisk, fng, mvrvEst) ==
  FxAdd(FxAdd(FxMul(priceRisk, Fin(W_PRICE)), FxMul(Num(fng), Fin(W_FNG))),
        FxMul(clamp100(FxMul(FxDiv(mvrvEst, Num(6)), Num(100))), Fin(W_MVRV)))
(* Faulty variants of lines 117-119 of App.tsx, against which the regime     *)
(* rules are tested: no regime between the thresholds, and the lower          *)
(* threshold itself counted as ACCUMULATE.                                    *)
statusOfGap(riskPercent) ==
  IF FxLt(riskPercent, Num(LOW_THRESHOLD)) THEN ACCUMULATE
  ELSE IF FxGt(riskPercent, Num(HIGH_THRESHOLD)) THEN SELL
  ELSE "NONE"
statusOfInclusive(riskPercent) ==
  IF ~FxGt(riskPercent, Num(LOW_THRESHOLD)) THEN ACCUMULATE
  ELSE IF FxGt(riskPercent, Num(HIGH_THRESHOLD)) THEN SELL
  ELSE STABLE

(* One more: a regime with hysteresis, ACCUMULATE being left only at 40,     *)
(* against which the absence of memory is tested.                             *)
statusOfSticky(riskPercent) ==
  IF FxLt(riskPercent, Num(LOW_THRESHOLD)) THEN ACCUMULATE
  ELSE IF FxGt(riskPercent, Num(HIGH_THRESHOLD)) THEN SELL
  ELSE IF /\ last.op = "calculateIndicators"
          /\ last.out.status = ACCUMULATE
          /\ FxLt(riskPercent, Num(40)) THEN ACCUMULATE
  ELSE STABLE

statusOf(riskPercent) ==
  IF FxLt(riskPercent, Num(LOW_THRESHOLD)) THEN ACCUMULATE
  ELSE IF FxGt(riskPercent, Num(HIGH_THRESHOLD)) THEN SELL
  ELSE STABLE

(* calculateIndicators, from the line that has computed model on. *)
indicatorsOf(price, fng, model) ==
  LET oscillator == oscillatorOf(price, model.weighted)
      priceRisk == priceRiskOf(oscillator)
      mvrvEst == mvrvEstOf(oscillator)
      riskPercent == riskPercentOf(priceRisk, fng, mvrvEst)
  IN  [model |-> model, oscillator |-> oscillator, mvrvEst |-> mvrvEst,
       status |-> statusOf(riskPercent), riskPercent |-> riskPercent]

calculateIndicators(price, date, fng) == indicatorsOf(price, fng, getModelValues(date))

(* The earlier App variant: the stats memo over data and new Date(). *)
statsStatusOf(riskPercent) ==
  IF FxLt(riskPercent, Num(STATS_LOW_THRESHOLD)) THEN ACCUMULATE
  ELSE IF FxGt(riskPercent, Num(STATS_HIGH_THRESHOLD)) THEN SELL
  ELSE STABLE

(* The stats memo, from the line that has computed model on. *)
statsOf(data, model) ==
  LET oscillator == IF MagGtZero(data.currentPrice)
                    THEN MathLog(MagDiv(data.currentPrice, model.weighted))
                    ELSE Num(0)
      priceRisk == clamp100(FxMul(FxDiv(FxAdd(oscillator, Fin(HALF)), Num(1)), Num(100)))
      fngRisk == Num(data.fngValue)
      mvrvEst == FxAdd(FxMul(oscillator, Fin(MVRV_SLOPE)), Fin(MVRV_OFFSET))
      mvrvRisk == clamp100(FxMul(FxDiv(mvrvEst, Num(6)), Num(100)))
      riskPercent == FxAdd(FxAdd(FxMul(priceRisk, Fin(W_PRICE)),
                                 FxMul(fngRisk, Fin(W_FNG))),
                           FxMul(mvrvRisk, Fin(W_MVRV)))
  IN  [model |-> model, oscillator |-> oscillator, mvrvEst |-> mvrvEst,
       status |-> statsStatusOf(riskPercent), riskPercent |-> riskPercent]

stats(data, now) == statsOf(data, getModelValues(now))

-----------------------------------------------------------------------------
(* dataService.ts: fetchMarketData, in the two variants of the repository     *)
(* (services/dataService.ts, and the one of part_003 with a second source of  *)
(* the exchange rate).  A value read from a response is whole (a number) or   *)
(* not a number.                                                              *)
Whole(n) == [k |-> "int", v |-> n]
NotANumber == [k |-> "nan", v |-> 0]
Missing == [k |-> "undefined", v |-> 0]

(* parseFloat and parseInt of a field of a response: the number a numeric     *)
(* text holds, NaN for any other text and for a missing field.               *)
Numeric(n) == [kind |-> "numeric", value |-> n]
Garbage == [kind |-> "text", value |-> 0]
Absent == [kind |-> "absent", value |-> 0]
parseFloat(raw) == IF raw.kind = "numeric" THEN Whole(raw.value) ELSE NotANumber
parseInt(raw) == IF raw.kind = "numeric" THEN Whole(raw.value) ELSE NotANumber
(* exJson?.rates?.KRW: the number, or undefined. *)
ratesKRW(raw) == IF raw.kind = "numeric" THEN Whole(raw.value) ELSE Missing
(* x || d on a number: d when x is 0, NaN or undefined. *)
OrDefault(x, d) == IF x.k = "int" /\ x.v # 0 THEN x.v ELSE d

FALLBACK_PRICE == 98000
DEFAULT_FNG == 50
DEFAULT_USD_KRW == 1440
FALLBACK_FNG == 75
FALLBACK_USD_KRW == 1440
FALLBACK_NOTICE == "connection error (fallback mode)"
LOCALE_TIME == "new Date().toLocaleString('ko-KR')"
Variants == {"dataService.ts", "part_003"}

NoData == [dataSource |-> "none"]
FallbackData ==
  [currentPrice |-> Whole(FALLBACK_PRICE), fngValue |-> FALLBACK_FNG,
   usdKrw |-> FALLBACK_USD_KRW, lastUpdated |-> FALLBACK_NOTICE,
   history |-> <<>>, dataSource |-> "Fallback"]
HybridData(f) ==
  [currentPrice |-> f.currentPrice, fngValue |-> f.fngValue, usdKrw |-> f.usdKrw,
   lastUpdated |-> LOCALE_TIME, history |-> f.history, dataSource |-> "Hybrid"]

(* The promise of fetchMarketData settled: resolved with data, or rejected. *)
Resolved(f, data) == [f EXCEPT !.pc = "done", !.result = data]
Rejected(f) == [f EXCEPT !.pc = "rejected"]

(* Faulty variants of the two catch clauses, against which the fallbacks are  *)
(* tested: the outer one throwing the error on, and the sentiment fetch       *)
(* without a catch of its own, its error reaching the outer one.              *)
catchErrorRethrown(f) == Rejected([f EXCEPT !.threw = @ \cup {"binance"}])
catchFngOuter(f) == Resolved([f EXCEPT !.threw = @ \cup {"fng"}], FallbackData)

(* catch (error), lines 99-109, and the catch {} of lines 82 and 89. *)
catchError(f) == Resolved([f EXCEPT !.threw = @ \cup {"binance"}], FallbackData)
catchFng(f) == [f EXCEPT !.threw = @ \cup {"fng"}, !.pc = "rate"]
returnHybrid(f) == Resolved(f, HybridData(f))
catchRate(f) ==
  IF f.variant = "part_003"
  THEN [f EXCEPT !.threw = @ \cup {"rate"}, !.pc = "rate2"]
  ELSE returnHybrid([f EXCEPT !.threw = @ \cup {"rate"}])
catchRateFallback(f) == returnHybrid([f EXCEPT !.threw = @ \cup {"rate2"}])

(* fetchFromBinance assembling the daily history.  Calendar dates are days    *)
(* since 1970-01-01 and instants are hours since then; a candle is the UTC    *)
(* date of its open time d[0] and its close d[4].                             *)
START_DAY == 16436
FIRST_PRICE == 314
HISTORICAL_PRE_BINANCE ==
  <<[date |-> 16436, price |-> 314], [date |-> 16526, price |-> 244],
    [date |-> 16617, price |-> 258], [date |-> 16709, price |-> 236],
    [date |-> 16801, price |-> 434], [date |-> 16892, price |-> 416],
    [date |-> 16983, price |-> 673], [date |-> 17075, price |-> 610],
    [date |-> 17167, price |-> 997], [date |-> 17257, price |-> 1071],
    [date |-> 17348, price |-> 2480]>>

SetMax(S) == CHOOSE x \in S : \A y \in S : y <= x
SetMin(S) == CHOOSE x \in S : \A y \in S : y >= x

(* entries.forEach(e => rawMap.set(e.date, e.price)): a later entry of the    *)
(* same date replaces an earlier one.                                         *)
setAll(rawMap, entries) ==
  [k \in DOMAIN rawMap \cup {entries[i].date : i \in DOMAIN entries} |->
     IF \E i \in DOMAIN entries : entries[i].date = k
     THEN entries[SetMax({i \in DOMAIN entries : entries[i].date = k})].price
     ELSE rawMap[k]]
EmptyMap == [k \in {} |-> 0]
rawMapOf(weekly, daily) == setAll(setAll(setAll(EmptyMap, HISTORICAL_PRE_BINANCE), weekly), daily)

(* The time zone of the runtime: its offsets from UTC in hours, and the local *)
(* days on which the wall-clock time of the loop is summer time.              *)
Seoul == [name |-> "Asia/Seoul", standard |-> 9, summer |-> 9, summerDays |-> {}]
NewYork ==
  [name |-> "America/New_York", standard |-> -5, summer |-> -4,
   summerDays |-> {<<16502, 16739>>, <<16873, 17110>>, <<17237, 17474>>}]
offsetOn(tz, localDay) ==
  IF \E r \in tz.summerDays : r[1] <= localDay /\ localDay <= r[2]
  THEN tz.summer ELSE tz.standard

(* d after i rounds of d.setDate(d.getDate() + 1) from new Date('2015-01-01'):*)
(* the local date moves on by one day and the local time of day stays, so the *)
(* instant is that wall-clock time less the offset in force on that local day.*)
instantOf(tz, i) ==
  (START_DAY * 24 + tz.standard + 24 * i)
    - offsetOn(tz, (START_DAY * 24 + tz.standard + 24 * i) \div 24)
(* d.toISOString().split('T')[0]: the UTC date of the instant. *)
dateStrOf(tz, i) == instantOf(tz, i) \div 24

(* The number of rounds for which d <= endDate holds. *)
roundsOf(tz, endDay) ==
  Cardinality({i \in 0..(endDay - START_DAY + 1) : instantOf(tz, i) <= endDay * 24})
(* lastPrice in round i: the price of the latest date of rawMap the loop has  *)
(* come by in rounds 0..i (a date k is met, if at all, within one round of    *)
(* k - START_DAY), and before any, rawMap.get(sortedDates[0]) || 314.         *)
metBy(rawMap, tz, i) ==
  {k \in DOMAIN rawMap :
     \E j \in (k - START_DAY - 1)..(k - START_DAY + 1) :
        0 <= j /\ j <= i /\ dateStrOf(tz, j) = k}
lastPriceAt(rawMap, tz, i) ==
  IF metBy(rawMap, tz, i) # {} THEN rawMap[SetMax(metBy(rawMap, tz, i))]
  ELSE IF rawMap[SetMin(DOMAIN rawMap)] # 0 THEN rawMap[SetMin(DOMAIN rawMap)]
  ELSE FIRST_PRICE
fillHistory(rawMap, tz) ==
  [n \in 1..roundsOf(tz, SetMax(DOMAIN rawMap)) |->
     [date |-> dateStrOf(tz, n - 1), price |-> lastPriceAt(rawMap, tz, n - 1)]]
historyOf(weekly, daily, tz) == fillHistory(rawMapOf(weekly, daily), tz)

(* chartData of the two versions of the App, as far as it can raise: the      *)
(* number of historical points, the day the predictions start from and their  *)
(* number.  new Date(h.date) and getModelValues raise for no argument.        *)
CHART_START_DAY == 17348
PREDICTION_DAYS == 365
Apps == {"App.tsx", "part_004"}
NotComputed == [computed |-> FALSE]
TypeError == [computed |-> TRUE, threw |-> TRUE]
Chart(historical, from, predictions) ==
  [computed |-> TRUE, threw |-> FALSE, historical |-> historical, from |-> from,
   predictions |-> predictions]
historicalOf(history) ==
  Cardinality({n \in DOMAIN history : history[n].date >= CHART_START_DAY})
chartDataOf(version, data) ==
  IF data = NoData THEN Chart(0, "none", 0)
  ELSE IF version = "App.tsx"
  THEN (IF data.history = <<>> THEN TypeError
        ELSE Chart(historicalOf(data.history),
                   Whole(data.history[Len(data.history)].date), PREDICTION_DAYS))
  ELSE (IF historicalOf(data.history) > 0
        THEN Chart(historicalOf(data.history),
                   Whole(data.history[Len(data.history)].date), "weekly until a year from now")
        ELSE Chart(0, "Date.now()", "weekly until a year from now"))

(* App.tsx: the state of the component, the snapshot log it keeps in local    *)
(* storage, and the AI analysis.  Instants are milliseconds from the start of *)
(* the day the session falls in.  A snapshot is told by its timestamp and its *)
(* price; its other fields are what calculateIndicators yields for them.      *)
FIVE_MINUTES == 300000
MAX_SNAPSHOTS == 144
MIN_LOGS == 5
NoAppData == [intraday |-> <<>>, loaded |-> FALSE]
AppData(intraday) == [intraday |-> intraday, loaded |-> TRUE]
NoAnalysis == "null"
Snapshot(timestamp, price) == [id |-> timestamp, timestamp |-> timestamp, price |-> price]
NoStep == [op |-> "none", kind |-> "none", L |-> 0, now |-> 0, ai |-> FALSE]
Step(op, kind, L, now) == [op |-> op, kind |-> kind, L |-> L, now |-> now, ai |-> FALSE]
(* useState and useRef of lines 80-89, with what local storage holds. *)
Constructed(stored) ==
  [pc |-> "constructed", data |-> NoAppData, stored |-> stored, history |-> <<>>,
   isManualCleared |-> FALSE, showHistory |-> FALSE, isAnalyzing |-> FALSE,
   aiAnalysis |-> NoAnalysis, requests |-> 0, pending |-> 0, now |-> 0, step |-> NoStep]

(* array.reverse(), array.slice(0, n) and array.slice(-n) *)
Reverse(s) == [i \in 1..Len(s) |-> s[Len(s) + 1 - i]]
SliceFirst(s, n) == SubSeq(s, 1, MinInt(n, Len(s)))
SliceLast(s, n) == SubSeq(s, MaxInt(1, Len(s) - n + 1), Len(s))

(* fetchAIAnalysis up to its await, and the effect of lines 178-182. *)
fetchAIAnalysis(a, historyData) ==
  IF Len(historyData) < MIN_LOGS \/ a.isAnalyzing THEN a
  ELSE [a EXCEPT !.isAnalyzing = TRUE, !.requests = @ + 1, !.step.ai = TRUE]
analysisEffect(a) ==
  IF a.showHistory /\ Len(a.history) >= MIN_LOGS /\ a.aiAnalysis = NoAnalysis /\ ~a.isAnalyzing
  THEN fetchAIAnalysis(a, a.history) ELSE a
(* A faulty variant of fetchAIAnalysis after its await, against which the     *)
(* return of isAnalyzing is tested: without the finally clause, the flag is   *)
(* lowered on success only.                                                   *)
settledOfNoFinally(a, outcome) ==
  IF outcome = "json"
  THEN [a EXCEPT !.requests = @ - 1, !.aiAnalysis = "result", !.isAnalyzing = FALSE]
  ELSE IF outcome = "empty" THEN [a EXCEPT !.requests = @ - 1, !.isAnalyzing = FALSE]
  ELSE [a EXCEPT !.requests = @ - 1, !.aiAnalysis = "error"]
(* fetchAIAnalysis after its await: the text parsed, no text, a text that     *)
(* JSON.parse rejects, or generateContent throwing; finally in each case.     *)
settledOf(a, outcome) ==
  [a EXCEPT !.requests = @ - 1,
            !.aiAnalysis = IF outcome = "json" THEN "result"
                           ELSE IF outcome = "empty" THEN @ ELSE "error",
            !.isAnalyzing = FALSE]

(* The backfill effect of lines 185-260. *)
closestPointAt(intraday, targetTime, diff) ==
  intraday[SetMin({i \in DOMAIN intraday : Abs(intraday[i].date - targetTime) = diff})]
closestPoint(intraday, targetTime) ==
  closestPointAt(intraday, targetTime,
                 SetMin({Abs(intraday[i].date - targetTime) : i \in DOMAIN intraday}))
initialSnapshots(intraday) ==
  Reverse([i \in DOMAIN SliceLast(intraday, MAX_SNAPSHOTS) |->
             Snapshot(SliceLast(intraday, MAX_SNAPSHOTS)[i].date,
                      SliceLast(intraday, MAX_SNAPSHOTS)[i].price)])
(* A faulty variant of line 225, against which the backfilled timestamps are  *)
(* tested: the intervals rounded up.                                          *)
missingIntervalsOfCeil(gap) == (gap + FIVE_MINUTES - 1) \div FIVE_MINUTES
missingIntervalsOf(gap) == gap \div FIVE_MINUTES
backfillsOf(intraday, L, missingIntervals) ==
  [i \in 1..missingIntervals |->
     Snapshot(L + i * FIVE_MINUTES, closestPoint(intraday, L + i * FIVE_MINUTES).price)]
updatedOf(parsed, intraday, now) ==
  IF parsed = <<>> THEN initialSnapshots(intraday)
  ELSE IF now - parsed[1].timestamp >= FIVE_MINUTES
  THEN Reverse(backfillsOf(intraday, parsed[1].timestamp,
                           missingIntervalsOf(now - parsed[1].timestamp))) \o parsed
  ELSE parsed
(* A faulty variant of line 256, against which the cap is tested: no slice.   *)
finalHistoryOfAll(updated) == updated
finalHistoryOf(updated) == SliceFirst(updated, MAX_SNAPSHOTS)
savedAs(a, finalHistory) == [a EXCEPT !.stored = finalHistory, !.history = finalHistory]
backfillEffect(a) ==
  IF ~a.data.loaded \/ Len(a.data.intraday) = 0
  THEN [a EXCEPT !.step = Step("backfill", "none", 0, 0)]
  ELSE IF a.isManualCleared
  THEN [a EXCEPT !.isManualCleared = FALSE, !.step = Step("backfill", "skipped", 0, 0)]
  ELSE analysisEffect(
         savedAs([a EXCEPT !.step =
                    IF a.stored = <<>> THEN Step("backfill", "initial", 0, a.now)
                    ELSE Step("backfill", "gap", a.stored[1].timestamp, a.now)],
                 finalHistoryOf(updatedOf(a.stored, a.data.intraday, a.now))))

(* A faulty variant of clearHistory, against which the skip is tested: the    *)
(* flag not raised.                                                           *)
clearedOfUnflagged(a) ==
  analysisEffect([a EXCEPT !.stored = <<>>, !.history = <<>>, !.aiAnalysis = NoAnalysis,
                           !.step = Step("clearHistory", "confirmed", 0, 0)])
(* clearHistory once window.confirm has returned true. *)
clearedOf(a) ==
  analysisEffect([a EXCEPT !.isManualCleared = TRUE, !.stored = <<>>, !.history = <<>>,
                           !.aiAnalysis = NoAnalysis,
                           !.step = Step("clearHistory", "confirmed", 0, 0)])

(* constants.ts, STAGES: the stages of the three cards, thresholds descending.*)
STAGES_OSCILLATOR ==
  <<Fin(500000), Fin(400000), Fin(200000), Fin(-100000), Fin(-300000), Fin(-500000), NInf>>
STAGES_FNG == <<Num(75), Num(55), Num(45), Num(25), Num(0)>>
STAGES_MVRV == <<Num(7), Num(5), Num(3), Num(1), Fin(100000), NInf>>
STAGES == {STAGES_OSCILLATOR, STAGES_FNG, STAGES_MVRV}

(* a >= b, false when either side is NaN. *)
FxGe(a, b) == a.k # "nan" /\ b.k # "nan" /\ ~FxLt(a, b)

(* A faulty variant of line 20, against which the boundaries are tested: the  *)
(* strict comparison, which gives a boundary value to the stage below.        *)
activeIndexOfStrict(stages, currentVal) ==
  IF \E i \in DOMAIN stages : FxGt(currentVal, stages[i])
  THEN SetMin({i \in DOMAIN stages : FxGt(currentVal, stages[i])}) - 1
  ELSE -1
(* StageCard.tsx: stages.findIndex(stage => currentVal >= stage.threshold),   *)
(* an index from 0, or -1 when no stage qualifies.                            *)
activeIndexOf(stages, currentVal) ==
  IF \E i \in DOMAIN stages : FxGe(currentVal, stages[i])
  THEN SetMin({i \in DOMAIN stages : FxGe(currentVal, stages[i])}) - 1
  ELSE -1
(* The indexes of the stages drawn highlighted: isActive = idx === activeIndex*)
highlighted(stages, currentVal) ==
  {idx \in 0..(Len(stages) - 1) : idx = activeIndexOf(stages, currentVal)}

-----------------------------------------------------------------------------
(* The inputs the calls are drawn from. *)
Spread == 2
MaxDay == 14000
MaxOsc == 16

HALVING_COUNT == HALVING_DAY - GENESIS_DAY
(* Day counts since genesis around which dates are drawn: genesis, one cycle  *)
(* before the halving, the halving, the crest and the trough of the wave,     *)
(* the reference day of sigma, and the last day considered.                   *)
AnchorCounts ==
  {0, HALVING_COUNT - CYCLE_PERIOD, HALVING_COUNT, HALVING_COUNT + 365,
   HALVING_COUNT + 1095, REFERENCE_DAY, MaxDay}
DayCounts == {a + o : a \in AnchorCounts, o \in -Spread..Spread}
MsSamples == {0, 1, MS_PER_DAY - 1}
Dates == {[day |-> GENESIS_DAY + n, ms |-> m] : n \in DayCounts, m \in MsSamples}
NoonDates == {[day |-> GENESIS_DAY + n, ms |-> MS_PER_DAY \div 2] : n \in DayCounts}
FngSamples == 10
(* The sentiment index: samples of 0..100 and the two defaults of the data    *)
(* layer.                                                                     *)
DefaultFngs == {50, 75}
Fngs == {(100 * i) \div FngSamples : i \in 0..FngSamples} \cup DefaultFngs

(* Oscillator values at which, with a sentiment of 10 and of 40, the risk is  *)
(* exactly 35 and exactly 70.                                                 *)
BoundaryOscs == {-65306, 289796}
OscSamples ==
  {s * o : s \in {-1, 1}, o \in {0, 1, HALF, LnInt(2), LnInt(100), MaxOsc * ONE}}
    \cup BoundaryOscs
FixedPrices == {Zero, Neg(LnInt(100)), NegInf, NaN, Inf, Pos(LnInt(FALLBACK_PRICE))}
PricesAround(w) ==
  FixedPrices \cup (IF w.k = "pos" THEN {Pos(w.ln + o) : o \in OscSamples} ELSE {})
PricesAt(date) == PricesAround(getModelValues(date).weighted)

AddDays(date, n) == [day |-> date.day + n, ms |-> date.ms]

(* What the services answer: the ticker price, the weekly and the daily       *)
(* candles, the sentiment value and the exchange rate; and the time zones the *)
(* program runs in.                                                           *)
TickerAnswers == {Numeric(FALLBACK_PRICE), Numeric(64000), Garbage, Absent}
WeeklyAnswers ==
  {<<>>, <<[date |-> 17392, price |-> 4100], [date |-> 17399, price |-> 4300]>>}
DailyAnswers ==
  {<<>>, <<[date |-> 17392, price |-> 4060], [date |-> 17393, price |-> 4200]>>}
TimeZones == {Seoul, NewYork}
FngAnswers == {Numeric(0), Numeric(25), Numeric(FALLBACK_FNG), Numeric(100), Garbage}
RateAnswers == {Numeric(0), Numeric(1350), Numeric(DEFAULT_USD_KRW), Absent}

(* What a card is given: each threshold, its two neighbours, the extremes,    *)
(* and for the sentiment card every integer of 0..100.                        *)
CardValuesOf(stages) ==
  {FxAdd(stages[i], Fin(o)) : i \in DOMAIN stages, o \in {-1, 0, 1}}
    \cup {FxNaN, PInf, NInf}
    \cup (IF stages = STAGES_FNG THEN {Num(v) : v \in 0..100} ELSE {})

(* The inputs of the App: the intraday points a refresh brings (none, a few,  *)
(* or more than the log holds), five minutes apart up to the refresh; the log *)
(* an earlier session left in local storage; and the instants of the session. *)
LongIntraday == 150
LongGap == 145
SESSION_START == LongIntraday * FIVE_MINUTES
IntradayLengths == {0, 3, LongIntraday}
priceAt(date) == 60000 + date \div FIVE_MINUTES
IntradayAt(now, n) ==
  [i \in 1..n |->
     [date |-> (now \div FIVE_MINUTES) * FIVE_MINUTES - (n - i) * FIVE_MINUTES,
      price |-> priceAt((now \div FIVE_MINUTES) * FIVE_MINUTES - (n - i) * FIVE_MINUTES)]]
LogEnding(L, n) == [i \in 1..n |-> Snapshot(L - (i - 1) * FIVE_MINUTES, priceAt(L - (i - 1) * FIVE_MINUTES))]
StoredLogs == {<<>>, LogEnding(SESSION_START, MIN_LOGS), LogEnding(SESSION_START, MAX_SNAPSHOTS)}
Instants ==
  {SESSION_START + g : g \in {0, FIVE_MINUTES - 1, FIVE_MINUTES, 2 * FIVE_MINUTES + 1,
                              LongGap * FIVE_MINUTES + 1}}
MaxPending == 1
Outcomes == {"json", "empty", "unparsable", "throws"}

(* The inputs of a sequence of evaluations: one date, and prices that put the *)
(* risk at, just beside, and well beside the two thresholds.                  *)
SequenceDate == [day |-> HALVING_DAY, ms |-> MS_PER_DAY \div 2]
SequenceOscs == {b + o : b \in BoundaryOscs, o \in {-20000, -1, 0, 1, 20000}}
SequencePricesAround(w) == {Pos(w.ln + o) : o \in SequenceOscs}
SequencePrices == SequencePricesAround(getModelValues(SequenceDate).weighted)
SequenceFngs == {10, 40}

-----------------------------------------------------------------------------
(* The calls of the engine and of the indicator layer.  Each leaves what the *)
(* caller has kept, and the data layer, alone.                               *)
Init == call = Idle /\ last = Idle /\ fetch = NotFetching /\ app = Constructed(<<>>)

GetDaysSinceGenesis(date) ==
  /\ call = Idle
  /\ call' = [op |-> "getDaysSinceGenesis", date |-> date, out |-> getDaysSinceGenesis(date)]
  /\ UNCHANGED <<last, fetch, app>>

CalcStandard(days) ==
  /\ call = Idle
  /\ call' = [op |-> "calcStandard", days |-> days, out |-> calcStandard(days)]
  /\ UNCHANGED <<last, fetch, app>>

CalcDecaying(days) ==
  /\ call = Idle
  /\ call' = [op |-> "calcDecaying", days |-> days, out |-> calcDecaying(days)]
  /\ UNCHANGED <<last, fetch, app>>

CalcCycle(days, date) ==
  /\ call = Idle
  /\ call' = [op |-> "calcCycle", days |-> days, date |-> date,
              cycleDays |-> cycleDaysOf(date), cyclePos |-> cyclePosOf(date),
              wave |-> waveOf(cyclePosOf(date)), out |-> calcCycle(days, date)]
  /\ UNCHANGED <<last, fetch, app>>

CalcWeightedTotal(days, date) ==
  /\ call = Idle
  /\ call' = [op |-> "calcWeightedTotal", days |-> days, date |-> date,
              out |-> calcWeightedTotal(days, date)]
  /\ UNCHANGED <<last, fetch, app>>

GetDynamicSigma(days) ==
  /\ call = Idle
  /\ call' = [op |-> "getDynamicSigma", days |-> days, out |-> getDynamicSigma(days)]
  /\ UNCHANGED <<last, fetch, app>>

GetModelValues(date) ==
  /\ call = Idle
  /\ call' = [op |-> "getModelValues", date |-> date,
              days |-> getDaysSinceGenesis(date), out |-> getModelValues(date)]
  /\ UNCHANGED <<last, fetch, app>>

CalculateIndicators(price, date, fng) ==
  /\ call = Idle
  /\ call' = [op |-> "calculateIndicators", price |-> price, date |-> date, fng |-> fng,
              days |-> getDaysSinceGenesis(date),
              out |-> calculateIndicators(price, date, fng)]
  /\ UNCHANGED <<last, fetch, app>>

Stats(data, now) ==
  /\ call = Idle
  /\ call' = [op |-> "stats", price |-> data.currentPrice, date |-> now,
              fng |-> data.fngValue, days |-> getDaysSinceGenesis(now),
              out |-> stats(data, now)]
  /\ UNCHANGED <<last, fetch, app>>

(* The caller takes the returned value; the engine keeps nothing. *)
StageCard(stages, currentVal) ==
  /\ call = Idle
  /\ call' = [op |-> "StageCard", stages |-> stages, currentVal |-> currentVal,
              activeIndex |-> activeIndexOf(stages, currentVal),
              highlighted |-> highlighted(stages, currentVal)]
  /\ UNCHANGED <<last, fetch, app>>

Return ==
  /\ call # Idle
  /\ call' = Idle
  /\ UNCHANGED <<last, fetch, app>>

Next ==
  \/ \E d \in Dates : GetDaysSinceGenesis(d)
  \/ \E n \in DayCounts : CalcStandard(n)
  \/ \E n \in DayCounts : CalcDecaying(n)
  \/ \E n \in AnchorCounts, d \in Dates : CalcCycle(n, d)
  \/ \E n \in AnchorCounts, d \in Dates : CalcWeightedTotal(n, d)
  \/ \E n \in DayCounts : GetDynamicSigma(n)
  \/ \E d \in Dates : GetModelValues(d)
  \/ \E d \in NoonDates, f \in Fngs : \E p \in PricesAt(d) : CalculateIndicators(p, d, f)
  \/ \E d \in NoonDates, f \in Fngs : \E p \in PricesAt(d) :
       Stats([currentPrice |-> p, fngValue |-> f], d)
  \/ \E stages \in STAGES : \E v \in CardValuesOf(stages) : StageCard(stages, v)
  \/ Return

Spec == Init /\ [][Next]_vars

-----------------------------------------------------------------------------
(* The caller keeps the record a call returned and goes on to the next call. *)
KeepResult ==
  /\ call.op \in {"getModelValues", "calculateIndicators"}
  /\ last' = call
  /\ call' = Idle
  /\ UNCHANGED <<fetch, app>>

(* A sequence of evaluations, each kept until the next one. *)
NextSequence ==
  \/ \E p \in SequencePrices, f \in SequenceFngs : CalculateIndicators(p, SequenceDate, f)
  \/ KeepResult

SpecSequence == Init /\ [][NextSequence]_vars

-----------------------------------------------------------------------------
(* fetchMarketData, one step per await.  fetchFromBinance awaits the ticker,  *)
(* the weekly and the daily klines and then assembles the history; whatever   *)
(* it throws, at a fetch, at a json() or while assembling, ends in the outer  *)
(* catch.                                                                     *)
FetchMarketData(variant) ==
  /\ fetch.pc = "idle"
  /\ fetch' = [pc |-> "ticker", variant |-> variant, currentPrice |-> NotANumber,
               weekly |-> <<>>, daily |-> <<>>, tz |-> Seoul, history |-> <<>>,
               fngJson |-> Absent, fngValue |-> DEFAULT_FNG, usdKrw |-> DEFAULT_USD_KRW,
               threw |-> {}, result |-> NoData, chart |-> NotComputed]
  /\ UNCHANGED <<call, last, app>>

TickerArrives(raw) ==
  /\ fetch.pc = "ticker"
  /\ fetch' = [fetch EXCEPT !.currentPrice = parseFloat(raw), !.pc = "weekly"]
  /\ UNCHANGED <<call, last, app>>

WeeklyArrives(weekly) ==
  /\ fetch.pc = "weekly"
  /\ fetch' = [fetch EXCEPT !.weekly = weekly, !.pc = "daily"]
  /\ UNCHANGED <<call, last, app>>

DailyArrives(daily, tz) ==
  /\ fetch.pc = "daily"
  /\ fetch' = [fetch EXCEPT !.daily = daily, !.tz = tz,
                            !.history = historyOf(fetch.weekly, daily, tz),
                            !.pc = "fng"]
  /\ UNCHANGED <<call, last, app>>

BinanceThrows ==
  /\ fetch.pc \in {"ticker", "weekly", "daily"}
  /\ fetch' = catchError(fetch)
  /\ UNCHANGED <<call, last, app>>

FngArrives(raw) ==
  /\ fetch.pc = "fng"
  /\ fetch' = [fetch EXCEPT !.fngJson = raw,
                            !.fngValue = OrDefault(parseInt(raw), DEFAULT_FNG),
                            !.pc = "rate"]
  /\ UNCHANGED <<call, last, app>>

FngThrows ==
  /\ fetch.pc = "fng"
  /\ fetch' = catchFng(fetch)
  /\ UNCHANGED <<call, last, app>>

RateArrives(raw) ==
  /\ fetch.pc = "rate"
  /\ fetch' = returnHybrid([fetch EXCEPT !.usdKrw = OrDefault(ratesKRW(raw), DEFAULT_USD_KRW)])
  /\ UNCHANGED <<call, last, app>>

RateThrows ==
  /\ fetch.pc = "rate"
  /\ fetch' = catchRate(fetch)
  /\ UNCHANGED <<call, last, app>>

RateFallbackArrives(raw) ==
  /\ fetch.pc = "rate2"
  /\ fetch' = returnHybrid([fetch EXCEPT !.usdKrw = OrDefault(ratesKRW(raw), DEFAULT_USD_KRW)])
  /\ UNCHANGED <<call, last, app>>

RateFallbackThrows ==
  /\ fetch.pc = "rate2"
  /\ fetch' = catchRateFallback(fetch)
  /\ UNCHANGED <<call, last, app>>

(* The App renders with the data the promise resolved with: chartData. *)
ChartData(version) ==
  /\ fetch.pc = "done"
  /\ ~fetch.chart.computed
  /\ fetch' = [fetch EXCEPT !.chart = chartDataOf(version, fetch.result)]
  /\ UNCHANGED <<call, last, app>>

(* The caller takes the data the promise resolved with. *)
TakeData ==
  /\ fetch.pc = "done"
  /\ fetch' = NotFetching
  /\ UNCHANGED <<call, last, app>>

NextFetch ==
  \/ \E v \in Variants : FetchMarketData(v)
  \/ \E raw \in TickerAnswers : TickerArrives(raw)
  \/ \E w \in WeeklyAnswers : WeeklyArrives(w)
  \/ \E d \in DailyAnswers, tz \in TimeZones : DailyArrives(d, tz)
  \/ BinanceThrows
  \/ \E raw \in FngAnswers : FngArrives(raw)
  \/ FngThrows
  \/ \E raw \in RateAnswers : RateArrives(raw)
  \/ RateThrows
  \/ \E raw \in RateAnswers : RateFallbackArrives(raw)
  \/ RateFallbackThrows
  \/ \E version \in Apps : ChartData(version)
  \/ TakeData

SpecFetch == Init /\ [][NextFetch]_vars

-----------------------------------------------------------------------------
(* The App: its mount, the refreshes, the log and the AI analysis.  A handler *)
(* is taken with the renders and the effects its state updates bring about.   *)
InitApp ==
  /\ call = Idle
  /\ last = Idle
  /\ fetch = NotFetching
  /\ \E stored \in StoredLogs : app = [Constructed(stored) EXCEPT !.now = SESSION_START]

(* The effect of lines 98-108: init() is called and the saved log is read;    *)
(* setHistory brings the analysis effect about.                               *)
Mount ==
  /\ app.pc = "constructed"
  /\ app' = analysisEffect([app EXCEPT !.pc = "mounted", !.pending = 1,
                                       !.history = app.stored,
                                       !.step = Step("mount", "none", 0, 0)])
  /\ UNCHANGED <<call, last, fetch>>

(* init() called by the refresh button, up to its await. *)
Refresh ==
  /\ app.pc = "mounted"
  /\ app.pending < MaxPending
  /\ app' = [app EXCEPT !.pending = @ + 1, !.step = Step("init", "none", 0, 0)]
  /\ UNCHANGED <<call, last, fetch>>

(* init() after its await: setData(result), and the backfill effect that the  *)
(* new data brings about.                                                     *)
DataArrives(n) ==
  /\ app.pc = "mounted"
  /\ app.pending > 0
  /\ app' = backfillEffect([app EXCEPT !.pending = @ - 1,
                                       !.data = AppData(IntradayAt(app.now, n))])
  /\ UNCHANGED <<call, last, fetch>>

(* Time passes. *)
Tick(t) ==
  /\ t > app.now
  /\ app' = [app EXCEPT !.now = t]
  /\ UNCHANGED <<call, last, fetch>>

(* setShowHistory(show) of the history button and of the modal's close. *)
SetShowHistory(show) ==
  /\ app.pc = "mounted"
  /\ app.showHistory # show
  /\ app' = analysisEffect([app EXCEPT !.showHistory = show,
                                       !.step = Step("setShowHistory", "none", 0, 0)])
  /\ UNCHANGED <<call, last, fetch>>

ClearHistory(confirmed) ==
  /\ app.pc = "mounted"
  /\ app' = IF confirmed THEN clearedOf(app)
            ELSE [app EXCEPT !.step = Step("clearHistory", "declined", 0, 0)]
  /\ UNCHANGED <<call, last, fetch>>

(* generateContent settles and fetchAIAnalysis runs to its end. *)
AnalysisSettles(outcome) ==
  /\ app.requests > 0
  /\ app' = [settledOf(app, outcome) EXCEPT !.step = Step("fetchAIAnalysis", outcome, 0, 0)]
  /\ UNCHANGED <<call, last, fetch>>

NextApp ==
  \/ Mount
  \/ Refresh
  \/ \E n \in IntradayLengths : DataArrives(n)
  \/ \E t \in Instants : Tick(t)
  \/ \E show \in BOOLEAN : SetShowHistory(show)
  \/ \E confirmed \in BOOLEAN : ClearHistory(confirmed)
  \/ \E outcome \in Outcomes : AnalysisSettles(outcome)

SpecApp == InitApp /\ [][NextApp]_vars
(* The same with the request to the AI service settling in the end, one way   *)
(* or another.                                                                *)
SpecAppFair == SpecApp /\ WF_vars(\E outcome \in Outcomes : AnalysisSettles(outcome))

-----------------------------------------------------------------------------
(* Properties of the engine and of the indicator layer. *)

IsCalc == call.op \in {"calcStandard", "calcDecaying", "calcCycle", "calcWeightedTotal"}
IsIndicators == call.op \in {"calculateIndicators", "stats"}
CurveNames == {"standard", "decaying", "cycle", "weighted", "upper", "lower"}
InRange(x) == x.k = "fin" /\ 0 <= x.v /\ x.v <= 100 * ONE
StrictlyAfterGenesis(date) ==
  date.day > GENESIS_DAY \/ (date.day = GENESIS_DAY /\ date.ms > 0)

(* C1: for every date whose day count since genesis is at least 1, the record *)
(* returned by getModelValues has lower < weighted < upper, strictly.         *)
BandOrdering ==
  (call.op = "getModelValues" /\ call.days >= 1) =>
    /\ MagLt(call.out.lower, call.out.weighted)
    /\ MagLt(call.out.weighted, call.out.upper)
BandOrderingWitness ==
  /\ call.op = "getModelValues"
  /\ call.days = 1
  /\ call.out.weighted.k = "pos"
  /\ MagLt(call.out.lower, call.out.weighted)

(* C2: for every day count of at least 1 and any date, calcStandard,          *)
(* calcDecaying, calcCycle and calcWeightedTotal return a value strictly      *)
(* greater than 0, and so are the upper and lower bands of getModelValues.    *)
Positivity ==
  /\ (IsCalc /\ call.days >= 1) => call.out.k = "pos"
  /\ (call.op = "getModelValues" /\ call.days >= 1) =>
       (call.out.upper.k = "pos" /\ call.out.lower.k = "pos")
PositivityWitness ==
  /\ call.op = "calcCycle"
  /\ call.days >= 1
  /\ call.cyclePos = 1095
  /\ FxLt(call.wave, Num(1))
  /\ call.out.k = "pos"

(* C3: getModelValues returns six strictly positive values for every date     *)
(* strictly after genesis, at millisecond resolution.  The code returns six   *)
(* zeros throughout the first day after genesis, where the day count is 0.    *)
TotalAfterGenesis ==
  (call.op = "getModelValues" /\ StrictlyAfterGenesis(call.date)) =>
    \A f \in CurveNames : call.out[f].k = "pos"

(* C4: for a date at or before genesis (day count <= 0) the engine never      *)
(* returns NaN or a non-positive curve value.  The code has neither a clamp   *)
(* nor a rejection: it returns 0 for a day count of 0 and NaN below 0.        *)
NoSilentDegenerateValue ==
  /\ (IsCalc /\ call.days <= 0) => call.out.k = "pos"
  /\ (call.op = "getModelValues" /\ call.days <= 0) =>
       \A f \in CurveNames : call.out[f].k = "pos"

(* C5: in calculateIndicators, when the observed price is zero or negative    *)
(* the oscillator is exactly 0, never -Infinity or NaN.                       *)
OscillatorFallback ==
  (call.op = "calculateIndicators" /\ call.price.k \in {"zero", "neg", "ninf"}) =>
    call.out.oscillator = Num(0)
OscillatorFallbackWitness ==
  /\ call.op = "calculateIndicators"
  /\ call.price = Zero
  /\ call.days >= 1
  /\ call.out.oscillator = Num(0)

(* C6: for every observed price, every sentiment index in 0..100 and every    *)
(* date with a day count of at least 1, riskPercent lies in [0, 100].         *)
RiskClamp ==
  (IsIndicators /\ call.days >= 1) => InRange(call.out.riskPercent)
RiskClampWitness ==
  /\ call.op = "calculateIndicators"
  /\ call.days >= 1
  /\ call.price = Inf
  /\ call.fng = 100
  /\ call.out.riskPercent = Num(100)

(* C7: for every riskPercent in [0, 100] the classification returns exactly   *)
(* one of ACCUMULATE, STABLE, SELL: the three conditions cover the range and  *)
(* no value satisfies two of them.                                            *)
RegimeTotality ==
  (call.op = "calculateIndicators" /\ InRange(call.out.riskPercent)) =>
    LET low == FxLt(call.out.riskPercent, Num(LOW_THRESHOLD))
        high == FxGt(call.out.riskPercent, Num(HIGH_THRESHOLD))
    IN  /\ call.out.status \in MarketStatus
        /\ ~(low /\ high)
        /\ (call.out.status = ACCUMULATE) <=> low
        /\ (call.out.status = SELL) <=> high
        /\ (call.out.status = STABLE) <=> (~low /\ ~high)
RegimeTotalityWitness ==
  /\ call.op = "calculateIndicators"
  /\ FxGt(call.out.riskPercent, Num(LOW_THRESHOLD))
  /\ FxLt(call.out.riskPercent, Num(HIGH_THRESHOLD))
  /\ call.out.status = STABLE

(* C8: the regime is ACCUMULATE exactly when riskPercent < 35, SELL exactly   *)
(* when riskPercent > 70 and STABLE otherwise, 35 and 70 themselves being     *)
(* STABLE, with the same pair (35, 70) at every place that classifies.        *)
RegimeThresholds ==
  /\ LOW_THRESHOLD = 35 /\ HIGH_THRESHOLD = 70
  /\ STATS_LOW_THRESHOLD = 35 /\ STATS_HIGH_THRESHOLD = 70
  /\ IsIndicators =>
       /\ (call.out.status = ACCUMULATE) <=> FxLt(call.out.riskPercent, Num(35))
       /\ (call.out.status = SELL) <=> FxGt(call.out.riskPercent, Num(70))
       /\ (call.out.status = STABLE) <=>
            ~(FxLt(call.out.riskPercent, Num(35)) \/ FxGt(call.out.riskPercent, Num(70)))
       /\ call.out.riskPercent \in {Num(35), Num(70)} => call.out.status = STABLE
RegimeThresholdsWitness ==
  /\ call.op = "calculateIndicators"
  /\ call.out.riskPercent = Num(35)
  /\ call.out.status = STABLE

(* C9: for a fixed days argument calcCycle is periodic in the date with       *)
(* period 1460 days, the cycle position of d and of d + 1460 days being the   *)
(* same.                                                                      *)
CyclePeriodicity ==
  call.op = "calcCycle" =>
    /\ call.cyclePos = cyclePosOf(AddDays(call.date, 1460))
    /\ call.wave = waveOf(cyclePosOf(AddDays(call.date, 1460)))
    /\ call.out = calcCycle(call.days, AddDays(call.date, 1460))
CyclePeriodicityWitness ==
  /\ call.op = "calcCycle"
  /\ call.days >= 1
  /\ call.date.day < HALVING_DAY
  /\ call.date.day + 1460 > HALVING_DAY
  /\ call.out.k = "pos"
  /\ call.wave # Num(1)

(* C10: for every date, also before the halving reference where the day       *)
(* offset is negative, the cycle position is an integer in [0, 1460)          *)
(* congruent to the floored day offset modulo 1460.                           *)
CyclePosition ==
  call.op = "calcCycle" =>
    /\ call.cyclePos \in 0..1459
    /\ call.cycleDays = call.date.day - HALVING_DAY
    /\ call.cyclePos = call.cycleDays % 1460
CyclePositionWitness ==
  /\ call.op = "calcCycle"
  /\ call.cycleDays < 0
  /\ JsRem(call.cycleDays, 1460) < 0
  /\ call.cyclePos = JsRem(call.cycleDays, 1460) + 1460

(* C11: for every day count up to 5800, zero and negative ones included,      *)
(* getDynamicSigma is exactly 0.5, so that upper / weighted does not narrow   *)
(* before day 5800.                                                           *)
SigmaPlateau ==
  /\ (call.op = "getDynamicSigma" /\ call.days <= 5800) => call.out = Fin(HALF)
  /\ (call.op = "getModelValues" /\ call.days >= 1 /\ call.days <= 5800) =>
       MathLog(MagDiv(call.out.upper, call.out.weighted)) = Fin(HALF)
SigmaPlateauWitness ==
  /\ call.op = "getDynamicSigma"
  /\ call.days = 5800
  /\ call.out = Fin(HALF)

(* C12: above day 5800 getDynamicSigma is strictly decreasing: for all        *)
(* 5800 <= d1 < d2, 0 < sigma(d2) < sigma(d1) <= 0.5.                         *)
SigmaDecreasing ==
  (call.op = "getDynamicSigma" /\ call.days >= 5800) =>
    /\ FxGt(call.out, Num(0))
    /\ ~FxGt(call.out, Fin(HALF))
    /\ call.out.k = "fin"
    /\ \A d2 \in DayCounts \cup {call.days + 1} :
         d2 > call.days =>
           (FxLt(getDynamicSigma(d2), call.out) /\ FxGt(getDynamicSigma(d2), Num(0)))
SigmaDecreasingWitness ==
  /\ call.op = "getDynamicSigma"
  /\ call.days = 5801
  /\ FxLt(call.out, Fin(HALF))
  /\ FxLt(getDynamicSigma(5802), call.out)

(* C13: in every record returned by getModelValues, weighted equals           *)
(* 0.4*decaying + 0.3*cycle + 0.3*standard of the same record, the weights    *)
(* are non-negative and sum to 1, and weighted lies between the minimum and   *)
(* the maximum of standard, decaying and cycle.  For a date before genesis    *)
(* the code returns NaN throughout, which lies between nothing.               *)
Blend(r) ==
  MagAdd(MagAdd(MagMul(r.decaying, ToMag(Fin(400000))),
                MagMul(r.cycle, ToMag(Fin(300000)))),
         MagMul(r.standard, ToMag(Fin(300000))))
MagLe(a, b) == MagLt(a, b) \/ (a.k # "nan" /\ a = b)
Curves(r) == {r.standard, r.decaying, r.cycle}
WeightedBlend ==
  /\ W_DECAYING + W_CYCLE + W_STANDARD = ONE
  /\ W_DECAYING >= 0 /\ W_CYCLE >= 0 /\ W_STANDARD >= 0
  /\ call.op = "getModelValues" =>
       /\ call.out.weighted.k # "nan"
       /\ call.out.weighted = Blend(call.out)
       /\ \E lo \in Curves(call.out) : MagLe(lo, call.out.weighted)
       /\ \E hi \in Curves(call.out) : MagLe(call.out.weighted, hi)
(* The same from genesis on (day count >= 0), where the code satisfies it. *)
WeightedBlendFromGenesis ==
  /\ W_DECAYING + W_CYCLE + W_STANDARD = ONE
  /\ (call.op = "getModelValues" /\ call.days >= 0) =>
       /\ call.out.weighted = Blend(call.out)
       /\ \E lo \in Curves(call.out) : MagLe(lo, call.out.weighted)
       /\ \E hi \in Curves(call.out) : MagLe(call.out.weighted, hi)

(* C14: for a positive price and a positive fair value the oscillator is 0    *)
(* when price equals weighted, strictly positive exactly when price >         *)
(* weighted and strictly negative exactly when price < weighted.              *)
OscillatorSign ==
  (/\ call.op = "calculateIndicators"
   /\ call.price.k \in {"pos", "inf"}
   /\ call.out.model.weighted.k = "pos") =>
    /\ (call.price = call.out.model.weighted) => call.out.oscillator = Num(0)
    /\ FxGt(call.out.oscillator, Num(0)) <=> MagLt(call.out.model.weighted, call.price)
    /\ FxLt(call.out.oscillator, Num(0)) <=> MagLt(call.price, call.out.model.weighted)
OscillatorSignWitness ==
  /\ call.op = "calculateIndicators"
  /\ call.out.model.weighted.k = "pos"
  /\ call.price = Pos(call.out.model.weighted.ln + LnInt(2))
  /\ call.out.oscillator = Fin(LnInt(2))

(* C15: when the observed price equals the weighted fair value and the        *)
(* sentiment index is 50, calculateIndicators yields oscillator 0 and regime  *)
(* STABLE, for every date with a day count of at least 1.                     *)
FairValueIsStable ==
  (/\ call.op = "calculateIndicators"
   /\ call.days >= 1
   /\ call.fng = 50
   /\ call.price = call.out.model.weighted) =>
    /\ call.out.oscillator = Num(0)
    /\ call.out.status = STABLE
FairValueIsStableWitness ==
  /\ call.op = "calculateIndicators"
  /\ call.days >= 1
  /\ call.fng = 50
  /\ call.price = call.out.model.weighted
  /\ call.price.k = "pos"
  /\ call.out.status = STABLE

(* C17: the regime has no memory: it depends on the riskPercent of the        *)
(* evaluation alone, so that two evaluations on either side of a threshold    *)
(* differ in regime whatever came before, and two with the same riskPercent   *)
(* agree.                                                                     *)
Below(x) == FxLt(x.out.riskPercent, Num(LOW_THRESHOLD))
Above(x) == FxGt(x.out.riskPercent, Num(HIGH_THRESHOLD))
NoHysteresis ==
  (call.op = "calculateIndicators" /\ last.op = "calculateIndicators") =>
    /\ (call.out.riskPercent = last.out.riskPercent) => call.out.status = last.out.status
    /\ (Below(call) # Below(last)) => call.out.status # last.out.status
    /\ (Above(call) # Above(last)) => call.out.status # last.out.status
    /\ (Below(call) = Below(last) /\ Above(call) = Above(last)) =>
         call.out.status = last.out.status
NoHysteresisWitness ==
  /\ call.op = "calculateIndicators"
  /\ last.op = "calculateIndicators"
  /\ last.out.status = ACCUMULATE
  /\ call.out.status = STABLE
  /\ call.out.riskPercent.v - last.out.riskPercent.v <= 200

(* C19: for every date and every day count of at least 1 the wave multiplier  *)
(* lies in [0.85, 1.15], calcCycle lies between 0.85 and 1.15 times           *)
(* calcStandard, and calcCycle equals calcStandard when the whole-day offset  *)
(* from the halving reference is a multiple of 1460.                          *)
Scaled(x, factor) == MagMul(x, ToMag(Fin(factor)))
WaveBand ==
  (call.op = "calcCycle" /\ call.days >= 1) =>
    /\ call.wave.k = "fin"
    /\ 850000 <= call.wave.v /\ call.wave.v <= 1150000
    /\ MagLe(Scaled(calcStandard(call.days), 850000), call.out)
    /\ MagLe(call.out, Scaled(calcStandard(call.days), 1150000))
    /\ (call.date.day - HALVING_DAY) % 1460 = 0 =>
         (call.wave = Num(1) /\ call.out = calcStandard(call.days))
WaveBandWitness ==
  /\ call.op = "calcCycle"
  /\ call.days >= 1
  /\ call.date.day - HALVING_DAY = -1460
  /\ call.out.k = "pos"
  /\ call.out = calcStandard(call.days)

(* C18: fetchMarketData never rejects: whenever fetchFromBinance throws, at   *)
(* any step, it resolves to the default record with currentPrice 98000,       *)
(* fngValue 75, usdKrw 1440, an empty history and dataSource 'Fallback'.      *)
NeverRejects ==
  /\ fetch.pc # "rejected"
  /\ (fetch.pc = "done" /\ "binance" \in fetch.threw) =>
       /\ fetch.result.currentPrice = Whole(98000)
       /\ fetch.result.fngValue = 75
       /\ fetch.result.usdKrw = 1440
       /\ fetch.result.history = <<>>
       /\ fetch.result.dataSource = "Fallback"
  /\ (fetch.pc \notin {"idle", "done"}) => "binance" \notin fetch.threw
NeverRejectsWitness ==
  /\ fetch.pc = "done"
  /\ "binance" \in fetch.threw
  /\ fetch.currentPrice = Whole(64000)
  /\ fetch.result.dataSource = "Fallback"

(* C20: a failure of the sentiment fetch or of the exchange-rate fetch alone  *)
(* does not discard the market data: when fetchFromBinance succeeds,          *)
(* fetchMarketData returns dataSource 'Hybrid' with the fetched currentPrice  *)
(* and history, fngValue 50 if the sentiment fetch failed and usdKrw 1440 if  *)
(* the exchange-rate fetch (in part_003: both of its sources) failed.         *)
RateFailed(f) ==
  "rate" \in f.threw /\ (f.variant = "part_003" => "rate2" \in f.threw)
KeepsMarketData ==
  (fetch.pc = "done" /\ "binance" \notin fetch.threw) =>
    /\ fetch.result.dataSource = "Hybrid"
    /\ fetch.result.currentPrice = fetch.currentPrice
    /\ fetch.result.history = fetch.history
    /\ fetch.result.history # <<>>
    /\ "fng" \in fetch.threw => fetch.result.fngValue = 50
    /\ RateFailed(fetch) => fetch.result.usdKrw = 1440
KeepsMarketDataWitness ==
  /\ fetch.pc = "done"
  /\ fetch.threw = {"fng", "rate", "rate2"}
  /\ fetch.result.dataSource = "Hybrid"
  /\ fetch.result.currentPrice = Whole(64000)
  /\ fetch.result.fngValue = 50
  /\ fetch.result.usdKrw = 1440


(* fetchFromBinance has returned: the history is assembled and nothing threw. *)
Assembled == fetch.pc \in {"fng", "rate", "rate2", "done"} /\ "binance" \notin fetch.threw
(* The price of date k in the merged data: the daily candle's, else the       *)
(* weekly candle's, else the static point's.                                  *)
CloseOn(candles, k) == candles[SetMax({i \in DOMAIN candles : candles[i].date = k})].price
HasDate(candles, k) == \E i \in DOMAIN candles : candles[i].date = k
MergedDates ==
  {c.date : c \in {fetch.daily[i] : i \in DOMAIN fetch.daily}
               \cup {fetch.weekly[i] : i \in DOMAIN fetch.weekly}
               \cup {HISTORICAL_PRE_BINANCE[i] : i \in DOMAIN HISTORICAL_PRE_BINANCE}}
MergedPrice(k) ==
  IF HasDate(fetch.daily, k) THEN CloseOn(fetch.daily, k)
  ELSE IF HasDate(fetch.weekly, k) THEN CloseOn(fetch.weekly, k)
  ELSE CloseOn(HISTORICAL_PRE_BINANCE, k)

(* C21: the history fetchFromBinance returns has exactly one entry for every  *)
(* calendar day from 2015-01-01 through the latest date of the merged data,   *)
(* in strictly ascending order without gap or duplicate, each day carrying    *)
(* the price of the latest merged date on or before it, where a daily candle  *)
(* overrides a weekly one and both override the static points.                *)
DailyHistory ==
  Assembled =>
    /\ Len(fetch.history) = SetMax(MergedDates) - START_DAY + 1
    /\ \A n \in DOMAIN fetch.history :
         /\ fetch.history[n].date = START_DAY + n - 1
         /\ fetch.history[n].price =
              MergedPrice(SetMax({k \in MergedDates : k <= START_DAY + n - 1}))
(* The same for a runtime whose time zone has no summer time. *)
DailyHistoryWithoutSummerTime ==
  (Assembled /\ fetch.tz.summerDays = {}) => DailyHistory
DailyHistoryWitness ==
  /\ Assembled
  /\ fetch.tz.summerDays = {}
  /\ fetch.daily # <<>>
  /\ fetch.weekly # <<>>
  /\ HasDate(fetch.weekly, fetch.daily[1].date)

(* C29: for every sentiment value v of 0..100 the API reports, fetchMarketData*)
(* returns fngValue = v; it returns the default 50 in place of the reported   *)
(* value only when the sentiment fetch failed or the value is not a number.   *)
Reported(f) == f.fngJson.kind = "numeric" /\ f.fngJson.value \in 0..100
SentimentKept ==
  (fetch.pc = "done" /\ fetch.result.dataSource = "Hybrid") =>
    /\ ("fng" \notin fetch.threw /\ Reported(fetch)) =>
         fetch.result.fngValue = fetch.fngJson.value
    /\ fetch.result.fngValue = DEFAULT_FNG =>
         \/ "fng" \in fetch.threw
         \/ fetch.fngJson.kind # "numeric"
         \/ fetch.fngJson.value = DEFAULT_FNG
(* The same for the values the code keeps: 1..100. *)
SentimentKeptAboveZero ==
  (fetch.pc = "done" /\ fetch.result.dataSource = "Hybrid"
     /\ "fng" \notin fetch.threw /\ Reported(fetch) /\ fetch.fngJson.value # 0) =>
    fetch.result.fngValue = fetch.fngJson.value

(* C28: getModelValues depends on its date only through the whole number of   *)
(* days since GENESIS: an instant anywhere within a day yields the record the *)
(* first instant of that day yields, so two instants with the same day count  *)
(* yield identical records (GENESIS and HALVING both start a day).            *)
StartOfDay(date) == [day |-> date.day, ms |-> 0]
WholeDayOnly ==
  call.op = "getModelValues" =>
    /\ getDaysSinceGenesis(call.date) = getDaysSinceGenesis(StartOfDay(call.date))
    /\ call.out = getModelValues(StartOfDay(call.date))
WholeDayOnlyWitness ==
  /\ call.op = "getModelValues"
  /\ call.date.ms = MS_PER_DAY - 1
  /\ call.date.day = HALVING_DAY
  /\ call.out.weighted.k = "pos"

(* The ranges the labels of the sentiment stages name, in the order of the    *)
(* stages.                                                                    *)
FngRanges == <<75..100, 55..74, 45..54, 25..44, 0..24>>
(* C26: a card highlights the first stage, in the descending order of the     *)
(* thresholds, whose threshold is at most the current value, and never more   *)
(* than one; a value equal to a threshold belongs to the stage that starts    *)
(* there; and on the sentiment card every integer of 0..100 highlights        *)
(* exactly one stage, the one whose label names its range.                    *)
StageHighlight ==
  call.op = "StageCard" =>
    /\ Cardinality(call.highlighted) <= 1
    /\ \A i \in DOMAIN call.stages :
         (i - 1 \in call.highlighted) <=>
            /\ FxGe(call.currentVal, call.stages[i])
            /\ \A j \in 1..(i - 1) : ~FxGe(call.currentVal, call.stages[j])
    /\ \A i \in DOMAIN call.stages :
         call.currentVal = call.stages[i] => call.highlighted = {i - 1}
    /\ call.stages = STAGES_FNG =>
         \A v \in 0..100 : call.currentVal = Num(v) =>
            call.highlighted = {i - 1 : i \in {r \in DOMAIN FngRanges : v \in FngRanges[r]}}
                /\ Cardinality(call.highlighted) = 1
StageHighlightWitness ==
  /\ call.op = "StageCard"
  /\ call.stages = STAGES_FNG
  /\ call.currentVal = Num(55)
  /\ call.highlighted = {1}

(* C27: computing chartData raises no exception for any MarketData that       *)
(* fetchMarketData can return, the Fallback record with its empty history     *)
(* included.                                                                  *)
ChartNeverRaises == (fetch.pc = "done" /\ fetch.chart.computed) => ~fetch.chart.threw
(* The same for the data of a fetch that succeeded. *)
ChartOfHybridNeverRaises ==
  (fetch.pc = "done" /\ fetch.chart.computed /\ fetch.result.dataSource = "Hybrid") =>
    ~fetch.chart.threw

-----------------------------------------------------------------------------
(* Properties of the App. *)
Timestamps(log) == {log[i].timestamp : i \in DOMAIN log}
Descending(log) == \A i \in 1..(Len(log) - 1) : log[i].timestamp > log[i + 1].timestamp
Backfilled == app.step.op = "backfill" /\ app.step.kind \in {"initial", "gap"}
GapBackfilled == app.step.op = "backfill" /\ app.step.kind = "gap"
(* An entry is missing from the log only when the log is full and the entry   *)
(* is older than all it holds.                                                *)
OnlyOldestDropped(timestamp, log) ==
  timestamp \in Timestamps(log)
    \/ (Len(log) = MAX_SNAPSHOTS /\ timestamp < log[MAX_SNAPSHOTS].timestamp)

(* C22: whatever refreshes, backfills and clears have taken place, the log in *)
(* local storage and the one in the component's state never hold more than   *)
(* 144 entries, and when a backfill would exceed 144 it is the oldest entries *)
(* that are dropped: of the entries the log held and of the intraday points   *)
(* of an initial backfill, one is missing afterwards only if it is older than *)
(* the 144 kept.                                                              *)
LogCap ==
  /\ [](/\ Len(app.stored) <= MAX_SNAPSHOTS
        /\ Len(app.history) <= MAX_SNAPSHOTS
        /\ Descending(app.stored)
        /\ (Backfilled /\ app.step.kind = "initial") =>
              \A i \in DOMAIN app.data.intraday :
                 OnlyOldestDropped(app.data.intraday[i].date, app.stored))
  /\ [][(app'.step.op = "backfill" /\ app'.step.kind = "gap" /\ app'.stored # app.stored) =>
          \A i \in DOMAIN app.stored :
             OnlyOldestDropped(app.stored[i].timestamp, app'.stored)]_vars
LogCapWitness ==
  /\ GapBackfilled
  /\ Len(app.stored) = MAX_SNAPSHOTS
  /\ app.step.L = SESSION_START
  /\ app.step.now = SESSION_START + FIVE_MINUTES
  /\ app.stored[MAX_SNAPSHOTS].timestamp = SESSION_START - (MAX_SNAPSHOTS - 2) * FIVE_MINUTES

(* The entries of the log newer than the entry that was its newest. *)
Added == {k \in DOMAIN app.stored : app.stored[k].timestamp > app.step.L}
Gap == app.step.now - app.step.L
(* C23: when the backfill effect runs with a non-empty stored log whose       *)
(* newest entry has timestamp L, and gap = now - L: for a gap under 5 minutes *)
(* no entry is added; otherwise exactly floor(gap / 5 min) entries are added, *)
(* with the timestamps L + i * 5 min for i = 1..floor(gap / 5 min), none      *)
(* later than now, the newest less than 5 minutes older than now.             *)
GapBackfill ==
  GapBackfilled =>
    IF Gap < FIVE_MINUTES THEN Added = {}
    ELSE /\ Cardinality(Added) = Gap \div FIVE_MINUTES
         /\ {app.stored[k].timestamp : k \in Added}
              = {app.step.L + i * FIVE_MINUTES : i \in 1..(Gap \div FIVE_MINUTES)}
         /\ \A k \in Added : app.stored[k].timestamp <= app.step.now
         /\ app.step.now - app.stored[1].timestamp < FIVE_MINUTES
(* C23 as the code has it: of these entries the log keeps the newest 144 at   *)
(* most: the entries added are those of i = 1..floor(gap / 5 min) when that   *)
(* is at most 144, and those of the last 144 values of i otherwise.           *)
Kept == MinInt(Gap \div FIVE_MINUTES, MAX_SNAPSHOTS)
GapBackfillCapped ==
  GapBackfilled =>
    IF Gap < FIVE_MINUTES THEN Added = {}
    ELSE /\ Cardinality(Added) = Kept
         /\ {app.stored[k].timestamp : k \in Added}
              = {app.step.L + i * FIVE_MINUTES :
                   i \in (Gap \div FIVE_MINUTES - Kept + 1)..(Gap \div FIVE_MINUTES)}
         /\ \A k \in Added : app.stored[k].timestamp <= app.step.now
         /\ app.step.now - app.stored[1].timestamp < FIVE_MINUTES
GapBackfillCappedWitness ==
  /\ GapBackfilled
  /\ Gap = 2 * FIVE_MINUTES + 1
  /\ Cardinality(Added) = 2
  /\ app.stored[1].timestamp = app.step.L + 2 * FIVE_MINUTES

Emptied == app.stored = <<>> /\ app.history = <<>>
OneAnalysis ==
  /\ [](app.requests <= 1 /\ (app.isAnalyzing <=> app.requests = 1))
  /\ [][app'.requests > app.requests =>
          ~app.isAnalyzing /\ app.requests = 0 /\ Len(app'.history) >= MIN_LOGS]_vars
  /\ (app.isAnalyzing ~> ~app.isAnalyzing)
OneAnalysisWitness ==
  /\ app.step.op = "fetchAIAnalysis"
  /\ app.step.kind = "throws"
  /\ app.aiAnalysis = "error"
  /\ ~app.isAnalyzing
=============================================================================
